---- MODULE Spec2Model ----
(***************************************************************************)
(* A model of the Pratt expression evaluator of pratt/basic.py and         *)
(* pratt/full.py: the regex tokenizer, the token classes with their nud    *)
(* and led handlers, the module globals token and tokens, and the          *)
(* functions expression, match and parse.                                  *)
(*                                                                         *)
(* A program text is a sequence of one-character strings.  A call of       *)
(* parse is executed in steps, one action per statement group of           *)
(* expression(); the call stack of a call is a sequence of frames, one per *)
(* active call of expression().                                            *)
(***************************************************************************)
EXTENDS Integers, Sequences, FiniteSets, TLC

VARIABLES
    variant,   \* which module is loaded: "basic" or "full"
    program,   \* program[c]: the argument of call c of parse
    gens,      \* gens[c]: the generator object tokenize(program) of call c
    tokens,    \* the module global tokens: the id of a generator, 0 when unset
    token,     \* the module global token: the current token
    stack,     \* stack[c]: the active frames of expression() of call c
    outcome    \* outcome[c]: what call c of parse returned or raised

vars == <<variant, program, gens, tokens, token, stack, outcome>>

(***************************************************************************)
(* Bounds of the model.                                                    *)
(***************************************************************************)
MaxLen == 3            \* every text of at most MaxLen characters is parsed
MaxLits == 3           \* literals in an expression of + and *
MaxPow == 3            \* literals in a chain of **
MaxPrefix == 3         \* prefix operators in a row
MaxMagnitude == 10000  \* numerators and denominators kept exactly
NCalls == 3            \* calls of parse in one session

Calls == 1..NCalls

(***************************************************************************)
(* Numbers.  Python's int is unbounded and its float is an IEEE double.    *)
(* A value is kept exactly, as the fraction n/d in lowest terms, while     *)
(* |n| and d stay within MaxMagnitude; a float is represented by the       *)
(* fraction it approximates.  Any other value (a larger one, an irrational *)
(* or complex power) is kept as the text e of the operation that made it,  *)
(* with its Python type ty, and is treated as a non-zero number; big tells *)
(* that it is an int known to exceed sys.maxsize, which math.factorial     *)
(* refuses.                                                                *)
(***************************************************************************)
Abs(x) == IF x < 0 THEN -x ELSE x

\* The operators that recurse bind what they recurse on with a quantifier, so
\* that it is computed once wherever the operator is evaluated.
RECURSIVE Gcd(_, _)
Gcd(a, b) ==
    IF b = 0 THEN a
    ELSE CHOOSE g \in { Gcd(b, r) : r \in {a % b} } : TRUE

Val(ty, n, d) ==
    [ty |-> ty, ex |-> TRUE, n |-> n, d |-> d, e |-> "", big |-> FALSE]

\* A value that is not kept exactly: its type, its sign sg (1 or -1, tracked
\* where the operation determines it) and the text of the operation.
Sym(ty, sg, e) ==
    [ty |-> ty, ex |-> FALSE, n |-> sg, d |-> 1, e |-> e, big |-> FALSE]

Huge(sg, e) ==
    [ty |-> "int", ex |-> FALSE, n |-> sg, d |-> 1, e |-> e, big |-> TRUE]

IntVal(n) == Val("int", n, 1)

Sgn(v) == IF v.n < 0 THEN -1 ELSE 1

Text(v) ==
    IF ~v.ex THEN v.e
    ELSE (IF v.ty = "float" THEN "f" ELSE "")
         \o ToString(v.n)
         \o (IF v.d = 1 THEN "" ELSE "/" \o ToString(v.d))

OpText(op, a, b) == "(" \o Text(a) \o op \o Text(b) \o ")"

\* The value n/d of type ty, reduced; e is its text when it is not kept exactly.
Frac(ty, n, d, e) ==
    LET g == Gcd(Abs(n), Abs(d))
        s == IF d < 0 THEN -1 ELSE 1
        nn == s * (n \div g)
        dd == s * (d \div g)
    IN  IF Abs(nn) > MaxMagnitude \/ dd > MaxMagnitude
        THEN Sym(ty, IF nn < 0 THEN -1 ELSE 1, e)
        ELSE Val(ty, nn, dd)

IsZero(v) == v.ex /\ v.n = 0

Ok(v) == [ok |-> TRUE, v |-> v, err |-> ""]

Fail(err) == [ok |-> FALSE, v |-> IntVal(0), err |-> err]

\* The type of a + b, a - b, a * b.
ArithTy(a, b) ==
    IF a.ty = "complex" \/ b.ty = "complex" THEN "complex"
    ELSE IF a.ty = "float" \/ b.ty = "float" THEN "float"
    ELSE "int"

\* The type of a / b: true division never yields an int.
DivTy(a, b) ==
    IF a.ty = "complex" \/ b.ty = "complex" THEN "complex" ELSE "float"

Add(a, b) ==
    IF a.ex /\ b.ex
    THEN Ok(Frac(ArithTy(a, b), a.n * b.d + b.n * a.d, a.d * b.d, OpText("+", a, b)))
    ELSE Ok(Sym(ArithTy(a, b), IF a.ex THEN Sgn(b) ELSE Sgn(a), OpText("+", a, b)))

Sub(a, b) ==
    IF a.ex /\ b.ex
    THEN Ok(Frac(ArithTy(a, b), a.n * b.d - b.n * a.d, a.d * b.d, OpText("-", a, b)))
    ELSE Ok(Sym(ArithTy(a, b), IF a.ex THEN -Sgn(b) ELSE Sgn(a), OpText("-", a, b)))

Mul(a, b) ==
    IF a.ex /\ b.ex
    THEN Ok(Frac(ArithTy(a, b), a.n * b.n, a.d * b.d, OpText("*", a, b)))
    ELSE IF IsZero(a) \/ IsZero(b)
    THEN Ok(Val(ArithTy(a, b), 0, 1))
    ELSE IF ArithTy(a, b) = "int" /\ (a.big \/ b.big)
    THEN Ok(Huge(Sgn(a) * Sgn(b), OpText("*", a, b)))
    ELSE Ok(Sym(ArithTy(a, b), Sgn(a) * Sgn(b), OpText("*", a, b)))

Div(a, b) ==
    IF IsZero(b) THEN Fail("ZeroDivisionError")
    ELSE IF a.ex /\ b.ex
    THEN Ok(Frac(DivTy(a, b), a.n * b.d, a.d * b.n, OpText("/", a, b)))
    ELSE IF IsZero(a)
    THEN Ok(Val(DivTy(a, b), 0, 1))
    ELSE Ok(Sym(DivTy(a, b), Sgn(a) * Sgn(b), OpText("/", a, b)))

Neg(a) ==
    IF a.ex THEN Val(a.ty, -a.n, a.d)
    ELSE [Sym(a.ty, -a.n, "(-" \o a.e \o ")") EXCEPT !.big = a.big]

\* b ** k for naturals b and k, MaxMagnitude + 1 standing for anything larger.
RECURSIVE NatPow(_, _)
NatPow(b, k) ==
    IF k = 0 THEN 1
    ELSE IF b = 0 THEN 0
    ELSE IF b = 1 THEN 1
    ELSE IF k > 31 THEN MaxMagnitude + 1
    ELSE CHOOSE p \in { IF r > MaxMagnitude \/ r * b > MaxMagnitude
                         THEN MaxMagnitude + 1
                         ELSE r * b : r \in {NatPow(b, k - 1)} } : TRUE

\* (a.n / a.d) ** k for an exact a and an integer k, as a value of type ty.
IntPow(ty, a, k, e) ==
    LET s == IF a.n < 0 /\ Abs(k) % 2 = 1 THEN -1 ELSE 1
        pn == NatPow(Abs(a.n), Abs(k))
        pd == NatPow(a.d, Abs(k))
    IN  IF ty = "int" /\ Abs(a.n) > 1 /\ k > 62 THEN Huge(s, e)
        ELSE IF pn > MaxMagnitude \/ pd > MaxMagnitude THEN Sym(ty, s, e)
        ELSE IF k >= 0 THEN Val(ty, s * pn, pd)
        ELSE Val(ty, s * pd, pn)

\* a ** b.  An int to a negative int, and anything to a float, is a float; zero
\* to a negative power is an error; a negative base to a fractional power is
\* complex.
Pow(a, b) ==
    LET e == OpText("**", a, b)
    IN  IF ~(a.ex /\ b.ex)
        THEN IF IsZero(a)
             THEN (IF b.n < 0 THEN Fail("ZeroDivisionError")
                   ELSE Ok(Val(IF b.ty = "int" THEN a.ty ELSE DivTy(a, b), 0, 1)))
             ELSE Ok(Sym(IF a.ty = "int" /\ b.ty = "int" /\ b.n > 0 THEN "int"
                         ELSE DivTy(a, b), 1, e))
        ELSE IF b.d = 1
        THEN \* an integral exponent, of type int or float
             IF b.n < 0 /\ a.n = 0 THEN Fail("ZeroDivisionError")
             ELSE IF b.n < 0 \/ b.ty = "float"
             THEN Ok(IntPow("float", a, b.n, e))
             ELSE Ok(IntPow(a.ty, a, b.n, e))
        ELSE \* a float exponent that is no integer
             IF a.n = 0
             THEN (IF b.n < 0 THEN Fail("ZeroDivisionError") ELSE Ok(Val("float", 0, 1)))
             ELSE IF a.n = a.d THEN Ok(Val("float", 1, 1))
             ELSE IF a.n < 0 THEN Ok(Sym("complex", 1, e))
             ELSE Ok(Sym("float", 1, e))

RECURSIVE NatFactorial(_)
NatFactorial(k) == IF k <= 1 THEN 1 ELSE k * NatFactorial(k - 1)

\* math.factorial(a): defined on an int that is not negative and is at most
\* sys.maxsize, 2^63 - 1; 21! is the first factorial beyond that.
Factorial(a) ==
    LET e == "(" \o Text(a) \o "!)"
    IN  IF a.ty # "int" THEN Fail("TypeError")
        ELSE IF a.n < 0 THEN Fail("ValueError")
        ELSE IF a.big THEN Fail("OverflowError")
        ELSE IF ~a.ex \/ a.n > 20 THEN Ok(Huge(1, e))
        ELSE IF a.n > 12 THEN Ok(Sym("int", 1, e))
        ELSE Ok(Frac("int", NatFactorial(a.n), 1, e))

(***************************************************************************)
(* The tokenizer.  token_pat is \s*(?:(\d+)|(\*\*|.)) in full.py and       *)
(* \s*(?:(\d+)|(.)) in basic.py; findall scans the text from left to right *)
(* and returns the (number, operator) groups of the matches.               *)
(***************************************************************************)
SP == " "
NL == "\n"

Digits == {"0", "1", "2", "3", "4", "5", "6", "7", "8", "9"}

Whitespace == {SP, NL}      \* the characters \s matches, of those modelled

DigitVal(ch) ==
    CASE ch = "0" -> 0 [] ch = "1" -> 1 [] ch = "2" -> 2 [] ch = "3" -> 3
      [] ch = "4" -> 4 [] ch = "5" -> 5 [] ch = "6" -> 6 [] ch = "7" -> 7
      [] ch = "8" -> 8 [] ch = "9" -> 9

\* The first index from i on whose character is not in set S, Len(s) + 1 if none.
RECURSIVE SkipWhile(_, _, _)
SkipWhile(s, i, S) ==
    IF i <= Len(s) /\ s[i] \in S THEN SkipWhile(s, i + 1, S) ELSE i

NoMatch == [ok |-> FALSE, number |-> <<>>, operator |-> "", end |-> 0]

\* One match of token_pat starting at index i.  \s* is greedy and gives back
\* characters when nothing follows it; "." matches any character but a newline.
MatchAt(v, s, i) ==
    LET j == SkipWhile(s, i, Whitespace)
    IN  IF j <= Len(s)
        THEN IF s[j] \in Digits
             THEN LET k == SkipWhile(s, j, Digits)
                  IN  [ok |-> TRUE, number |-> SubSeq(s, j, k - 1),
                       operator |-> "", end |-> k]
             ELSE IF v = "full" /\ s[j] = "*" /\ j < Len(s) /\ s[j + 1] = "*"
             THEN [ok |-> TRUE, number |-> <<>>, operator |-> "**", end |-> j + 2]
             ELSE [ok |-> TRUE, number |-> <<>>, operator |-> s[j], end |-> j + 1]
        ELSE LET back == {k \in i..Len(s) : s[k] # NL}
             IN  IF back = {} THEN NoMatch
                 ELSE LET k == CHOOSE m \in back : \A o \in back : o <= m
                      IN  [ok |-> TRUE, number |-> <<>>, operator |-> s[k],
                           end |-> k + 1]

\* token_pat.findall(s), from index i on.
RECURSIVE FindallFrom(_, _, _)
FindallFrom(v, s, i) ==
    IF i > Len(s) THEN <<>>
    ELSE LET m == MatchAt(v, s, i)
         IN  IF m.ok
             THEN <<[number |-> m.number, operator |-> m.operator]>>
                  \o FindallFrom(v, s, m.end)
             ELSE FindallFrom(v, s, i + 1)

Findall(v, s) == FindallFrom(v, s, 1)

\* int(value) of a run of digits.
RECURSIVE ParseIntTo(_, _)
ParseIntTo(ds, k) ==
    IF k = 0 THEN 0
    ELSE CHOOSE n \in { IF hi > MaxMagnitude THEN hi
                         ELSE 10 * hi + DigitVal(ds[k])
                         : hi \in {ParseIntTo(ds, k - 1)} } : TRUE

ParseInt(ds) == ParseIntTo(ds, Len(ds))

(***************************************************************************)
(* The token classes.  A token is its class and, for a literal, its value. *)
(***************************************************************************)
Tok(cls) == [cls |-> cls, value |-> IntVal(0)]

literal_token(number) ==
    [cls |-> "literal",
     value |-> Frac("int", ParseInt(number), 1, "big")]

end_token == Tok("end")

NoToken == Tok("none")      \* the global token before the first parse

\* The class tokenize yields for an operator lexeme, "" for an unknown one.
OperatorClass(v, op) ==
    IF v = "basic"
    THEN CASE op = "+" -> "add" [] op = "*" -> "mul" [] OTHER -> ""
    ELSE CASE op = "+" -> "add" [] op = "-" -> "sub" [] op = "*" -> "mul"
           [] op = "/" -> "div" [] op = "~" -> "inv" [] op = "!" -> "fac"
           [] op = "**" -> "pow" [] op = "(" -> "lparen" [] op = ")" -> "rparen"
           [] OTHER -> ""

\* The classes that define the attribute lbp, a nud method, a led method.
HasLbp(v, cls) ==
    IF v = "basic" THEN cls \in {"add", "mul", "end"}
    ELSE cls \in {"add", "sub", "mul", "div", "fac", "pow", "lparen", "rparen", "end"}

HasNud(v, cls) ==
    IF v = "basic" THEN cls = "literal"
    ELSE cls \in {"literal", "add", "sub", "inv", "lparen"}

HasLed(v, cls) ==
    IF v = "basic" THEN cls \in {"add", "mul"}
    ELSE cls \in {"add", "sub", "mul", "div", "fac", "pow"}

\* Lbp with the binding powers of + and * exchanged.
LbpExchanged(cls) ==
    CASE cls \in {"add", "sub"} -> 20
      [] cls \in {"mul", "div"} -> 10
      [] cls = "pow" -> 30
      [] cls = "fac" -> 150
      [] OTHER -> 0

Lbp(cls) ==
    CASE cls \in {"add", "sub"} -> 10
      [] cls \in {"mul", "div"} -> 20
      [] cls = "pow" -> 30
      [] cls = "fac" -> 150
      [] OTHER -> 0

(***************************************************************************)
(* The generator tokenize(program): it walks the list findall returned,    *)
(* yields one token per match, then yields the end token, then is          *)
(* exhausted.  A generator that raised is finished: a later next() raises  *)
(* StopIteration.                                                          *)
(***************************************************************************)
NoGen == [items |-> <<>>, i |-> 0, st |-> "none"]

tokenize(v, prog) == [items |-> Findall(v, prog), i |-> 0, st |-> "run"]

\* next(g): the generator afterwards, and the token yielded or the error raised.
GenNext(v, g) ==
    IF g.st = "run" /\ g.i < Len(g.items)
    THEN LET it == g.items[g.i + 1]
         IN  IF it.number # <<>>
             THEN [g |-> [g EXCEPT !.i = g.i + 1],
                   tok |-> literal_token(it.number), err |-> ""]
             ELSE IF OperatorClass(v, it.operator) # ""
             THEN [g |-> [g EXCEPT !.i = g.i + 1],
                   tok |-> Tok(OperatorClass(v, it.operator)), err |-> ""]
             ELSE [g |-> [g EXCEPT !.st = "done"],
                   tok |-> NoToken, err |-> "SyntaxError: unknown operator"]
    ELSE IF g.st = "run"
    THEN [g |-> [g EXCEPT !.st = "end"], tok |-> end_token, err |-> ""]
    ELSE [g |-> [g EXCEPT !.st = "done"], tok |-> NoToken, err |-> "StopIteration"]

(***************************************************************************)
(* The binding power a handler passes to expression().                     *)
(***************************************************************************)
\* The nud of a prefix operator calling expression() as the nud of "(" does.
NudRbpZero(cls) == 0

\* The led of ** calling expression() with its own lbp, as the other leds do.
LedRbpOwnLbp(cls) == Lbp(cls)

NudRbp(cls) == IF cls = "lparen" THEN 0 ELSE 100

LedRbp(cls) == IF cls = "pow" THEN 30 - 1 ELSE Lbp(cls)

(***************************************************************************)
(* Frames.  A frame is one active call of expression(rbp): pc is where it  *)
(* stands, t and left are its locals, via tells who called it: parse, or   *)
(* the nud or the led of the token t of the frame below.                   *)
(***************************************************************************)
Frame(rbp, via) ==
    [pc |-> "begin", rbp |-> rbp, t |-> NoToken, left |-> IntVal(0), via |-> via]

Idle == [st |-> "idle", v |-> IntVal(0), err |-> ""]

Running == [st |-> "running", v |-> IntVal(0), err |-> ""]

Returned(v) == [st |-> "value", v |-> v, err |-> ""]

Raised(err) == [st |-> "error", v |-> IntVal(0), err |-> err]

Finished(c) == outcome[c].st \in {"value", "error"}

Top(c) == stack[c][Len(stack[c])]

At(c, pc) == stack[c] # <<>> /\ Top(c).pc = pc

SetTop(c, f) == [stack EXCEPT ![c] = [@ EXCEPT ![Len(@)] = f]]

Push(c, f, g) == [stack EXCEPT ![c] = Append([@ EXCEPT ![Len(@)] = f], g)]

\* An exception propagates out of parse: nothing in the modules catches one.
Raise(c, err) ==
    /\ stack' = [stack EXCEPT ![c] = <<>>]
    /\ outcome' = [outcome EXCEPT ![c] = Raised(err)]

\* token = next(tokens), on the generator the global tokens names now.
NextToken(c) ==
    LET r == GenNext(variant, gens[tokens])
    IN  /\ gens' = [gens EXCEPT ![tokens] = r.g]
        /\ IF r.err # ""
           THEN /\ Raise(c, r.err)
                /\ UNCHANGED token
           ELSE /\ token' = r.tok
                /\ UNCHANGED outcome

(***************************************************************************)
(* parse(program): tokens = tokenize(program); token = next(tokens);       *)
(* return expression().                                                    *)
(***************************************************************************)
\* parse() going on with the generator of the call before when that one still
\* has tokens to yield.
ParseCallKeepCursor(c, prog) ==
    /\ outcome[c].st = "idle"
    /\ program' = [program EXCEPT ![c] = prog]
    /\ LET keep == tokens # 0 /\ gens[tokens].st = "run"
           id == IF keep THEN tokens ELSE c
           r == GenNext(variant, IF keep THEN gens[tokens] ELSE tokenize(variant, prog))
       IN  /\ tokens' = id
           /\ gens' = [gens EXCEPT ![id] = r.g]
           /\ IF r.err # ""
              THEN /\ outcome' = [outcome EXCEPT ![c] = Raised(r.err)]
                   /\ UNCHANGED <<token, stack>>
              ELSE /\ token' = r.tok
                   /\ stack' = [stack EXCEPT ![c] = <<Frame(0, "parse")>>]
                   /\ outcome' = [outcome EXCEPT ![c] = Running]
    /\ UNCHANGED variant

ParseCall(c, prog) ==
    /\ outcome[c].st = "idle"
    /\ program' = [program EXCEPT ![c] = prog]
    /\ tokens' = c
    /\ LET r == GenNext(variant, tokenize(variant, prog))
       IN  /\ gens' = [gens EXCEPT ![c] = r.g]
           /\ IF r.err # ""
              THEN /\ outcome' = [outcome EXCEPT ![c] = Raised(r.err)]
                   /\ UNCHANGED <<token, stack>>
              ELSE /\ token' = r.tok
                   /\ stack' = [stack EXCEPT ![c] = <<Frame(0, "parse")>>]
                   /\ outcome' = [outcome EXCEPT ![c] = Running]
    /\ UNCHANGED variant

\* expression(): t = token; token = next(tokens)
Advance(c) ==
    /\ At(c, "begin")
    /\ NextToken(c)
    /\ IF outcome'[c].st = "error" THEN TRUE
       ELSE stack' = SetTop(c, [Top(c) EXCEPT !.t = token, !.pc = "nud"])
    /\ UNCHANGED <<variant, program, tokens>>

\* expression(): left = t.nud(), up to the call of expression() the nud makes.
Nud(c) ==
    /\ At(c, "nud")
    /\ LET f == Top(c)
       IN  IF ~HasNud(variant, f.t.cls)
           THEN Raise(c, "AttributeError: nud")
           ELSE IF f.t.cls = "literal"
           THEN /\ stack' = SetTop(c, [f EXCEPT !.left = f.t.value, !.pc = "test"])
                /\ UNCHANGED outcome
           ELSE /\ stack' = Push(c, [f EXCEPT !.pc = "wait"],
                                 Frame(NudRbp(f.t.cls), "nud"))
                /\ UNCHANGED outcome
    /\ UNCHANGED <<variant, program, gens, tokens, token>>

\* The loop of expression() without its token = next(tokens).
LoopNoAdvance(c) ==
    /\ At(c, "test")
    /\ LET f == Top(c)
       IN  IF ~HasLbp(variant, token.cls)
           THEN Raise(c, "AttributeError: lbp")
           ELSE IF f.rbp < Lbp(token.cls)
           THEN /\ stack' = SetTop(c, [f EXCEPT !.t = token, !.pc = "led"])
                /\ UNCHANGED outcome
           ELSE /\ stack' = SetTop(c, [f EXCEPT !.pc = "ret"])
                /\ UNCHANGED outcome
    /\ UNCHANGED <<variant, program, gens, tokens, token>>

\* expression(): while rbp < token.lbp: t = token; token = next(tokens)
Loop(c) ==
    /\ At(c, "test")
    /\ LET f == Top(c)
       IN  IF ~HasLbp(variant, token.cls)
           THEN /\ Raise(c, "AttributeError: lbp")
                /\ UNCHANGED <<gens, token>>
           ELSE IF f.rbp < Lbp(token.cls)
           THEN /\ NextToken(c)
                /\ IF outcome'[c].st = "error" THEN TRUE
                   ELSE stack' = SetTop(c, [f EXCEPT !.t = token, !.pc = "led"])
           ELSE /\ stack' = SetTop(c, [f EXCEPT !.pc = "ret"])
                /\ UNCHANGED <<gens, token, outcome>>
    /\ UNCHANGED <<variant, program, tokens>>

\* expression(): left = t.led(left), up to the call of expression() the led makes.
Led(c) ==
    /\ At(c, "led")
    /\ LET f == Top(c)
       IN  IF ~HasLed(variant, f.t.cls)
           THEN Raise(c, "AttributeError: led")
           ELSE IF f.t.cls = "fac"
           THEN LET r == Factorial(f.left)
                IN  IF r.ok
                    THEN /\ stack' = SetTop(c, [f EXCEPT !.left = r.v, !.pc = "test"])
                         /\ UNCHANGED outcome
                    ELSE Raise(c, r.err)
           ELSE /\ stack' = Push(c, [f EXCEPT !.pc = "wait"],
                                 Frame(LedRbp(f.t.cls), "led"))
                /\ UNCHANGED outcome
    /\ UNCHANGED <<variant, program, gens, tokens, token>>

\* What the nud of class cls makes of the value of its call of expression().
NudResult(cls, val) ==
    CASE cls = "add" -> Ok(val)
      [] cls = "sub" -> Ok(Neg(val))
      [] cls = "inv" -> Div(IntVal(1), val)
      [] OTHER -> Ok(val)

\* What the led of class cls makes of left and the value of expression().
LedResult(cls, left, val) ==
    CASE cls = "add" -> Add(left, val)
      [] cls = "sub" -> Sub(left, val)
      [] cls = "mul" -> Mul(left, val)
      [] cls = "div" -> Div(left, val)
      [] cls = "pow" -> Pow(left, val)
      [] OTHER -> Ok(val)

\* expression(): return left, and the rest of the handler that called it.
Return(c) ==
    /\ At(c, "ret")
    /\ LET f == Top(c)
           n == Len(stack[c])
       IN  IF f.via = "parse"
           THEN /\ stack' = [stack EXCEPT ![c] = <<>>]
                /\ outcome' = [outcome EXCEPT ![c] = Returned(f.left)]
           ELSE LET p == stack[c][n - 1]
                    r == IF f.via = "nud" THEN NudResult(p.t.cls, f.left)
                         ELSE LedResult(p.t.cls, p.left, f.left)
                    q == [p EXCEPT !.left = r.v,
                                   !.pc = IF f.via = "nud" /\ p.t.cls = "lparen"
                                          THEN "match" ELSE "test"]
                IN  IF r.ok
                    THEN /\ stack' = [stack EXCEPT ![c] = Append(SubSeq(@, 1, n - 2), q)]
                         /\ UNCHANGED outcome
                    ELSE Raise(c, r.err)
    /\ UNCHANGED <<variant, program, gens, tokens, token>>

\* match(operator_rparen_token), called by the nud of "(".
Match(c) ==
    /\ At(c, "match")
    /\ IF token.cls # "rparen"
       THEN /\ Raise(c, "SyntaxError: Expected")
            /\ UNCHANGED <<gens, token>>
       ELSE /\ NextToken(c)
            /\ IF outcome'[c].st = "error" THEN TRUE
               ELSE stack' = SetTop(c, [Top(c) EXCEPT !.pc = "test"])
    /\ UNCHANGED <<variant, program, tokens>>

Step(c) ==
    \/ Advance(c)
    \/ Nud(c)
    \/ Loop(c)
    \/ Led(c)
    \/ Return(c)
    \/ Match(c)

(***************************************************************************)
(* The state after the module is imported: nothing parsed yet.             *)
(***************************************************************************)
Init ==
    /\ variant \in {"basic", "full"}
    /\ program = [c \in Calls |-> <<>>]
    /\ gens = [c \in Calls |-> NoGen]
    /\ tokens = 0
    /\ token = NoToken
    /\ stack = [c \in Calls |-> <<>>]
    /\ outcome = [c \in Calls |-> Idle]

(***************************************************************************)
(* The texts parsed.  Every text of at most MaxLen characters of Alphabet  *)
(* (three digits, both kinds of whitespace, every operator character and one *)
(* character that is no operator), the texts the tests parse, and longer   *)
(* texts of three shapes: expressions of + and *, chains of **, and prefix *)
(* operators with their operands.                                          *)
(***************************************************************************)
Alphabet == {"0", "1", "2", SP, NL, "+", "-", "*", "/", "~", "!", "(", ")", "x"}

BasicAlphabet == {"0", "1", "2", SP, NL, "+", "*", "-"}

Texts(A, n) == UNION {[1..k -> A] : k \in 0..n}

\* src/pratt/test/test_full.py and test_basic.py
FullTests ==
    { <<"1">>, <<"-", "1">>,
      <<"0", "+", "1", "+", "2", "*", "3", "*", "-", "4", "+", "5", "*", "*", "2", "!">>,
      <<"-", "-", "-", "1", "+", "+", "2", "+", "~", "1">>,
      <<"1", "*", "(", "2", "+", SP, "(", "-", "3", "-", "1", ")", ")">>,
      <<"2", "*", "*", "2", "*", "*", "3">> }

BasicTests ==
    { <<"1">>, <<"1", "+", "2", "+", "3">>,
      <<"1", "+", "2", "*", "3", "*", "4", "+", "5">>,
      <<"1", "*", "2", "*", "3">> }

Lits == {"0", "1", "2", "3"}

PrefixOps == {"+", "-", "~"}

InfixOps == {<<"+">>, <<"-">>, <<"*">>, <<"/">>, <<"*", "*">>}

\* k operands from D, joined by operators from O.
RECURSIVE Chain(_, _, _)
Chain(k, D, O) ==
    IF k = 1 THEN {<<d>> : d \in D}
    ELSE {x[1] \o x[2] \o <<x[3]>> : x \in Chain(k - 1, D, O) \X O \X D}

ArithTexts == UNION {Chain(k, {"1", "2", "3"}, {<<"+">>, <<"*">>}) : k \in 1..MaxLits}

PowTexts == UNION {Chain(k, Lits, {<<"*", "*">>}) : k \in 2..MaxPow}

Bangs == {<<>>, <<"!">>, <<"!", "!">>}

PrefixSeqs == UNION {[1..k -> PrefixOps] : k \in 1..MaxPrefix}

PrefixTexts ==
    {x[1] \o <<x[2]>> \o x[3] : x \in PrefixSeqs \X Lits \X Bangs}
    \cup {<<x[1]>> \o x[2] \o <<x[3], x[4]>> \o x[5] \o <<x[6]>> :
            x \in {"2", "3"} \X InfixOps \X PrefixOps \X {"2", "3"} \X InfixOps \X {"2", "3"}}
    \cup {<<x[1], "*", "*", x[2], "!">> : x \in Lits \X Lits}
    \cup {<<x[1], "(", x[2]>> \o x[3] \o <<x[4], ")">> \o x[5] :
            x \in PrefixOps \X {"1", "2"} \X InfixOps \X {"1", "2"} \X Bangs}

FullInputs ==
    Texts(Alphabet, MaxLen) \cup FullTests \cup ArithTexts \cup PowTexts \cup PrefixTexts

BasicInputs == Texts(BasicAlphabet, MaxLen) \cup BasicTests \cup ArithTexts

Inputs == IF variant = "basic" THEN BasicInputs ELSE FullInputs

(***************************************************************************)
(* One call of parse, on any of the texts, in either module.               *)
(***************************************************************************)
StartFrom(c, S) ==
    /\ outcome[c].st = "idle"
    /\ \E prog \in S : ParseCall(c, prog)

Start(c) == StartFrom(c, Inputs)

Next ==
    \/ Start(1)
    \/ Step(1)

Spec == Init /\ [][Next]_vars

\* One call that runs to its end: the interpreter goes on with a call that has
\* a step to take, nothing but the call itself stops a call of parse.  The
\* texts are those above, the texts of no shape being one character shorter.
FairInputs ==
    IF variant = "basic"
    THEN Texts(BasicAlphabet, MaxLen - 1) \cup BasicTests \cup ArithTexts
    ELSE Texts(Alphabet, MaxLen - 1) \cup FullTests \cup ArithTexts
            \cup PowTexts \cup PrefixTexts

FairNext ==
    \/ StartFrom(1, FairInputs)
    \/ Step(1)

FairSpec == Init /\ [][FairNext]_vars /\ WF_vars(Step(1))

(***************************************************************************)
(* A session: calls of full.parse one after the other, each starting when  *)
(* the one before has returned or raised.  The first call parses any text  *)
(* of less than MaxLen characters of SessionAlphabet or a text of the      *)
(* tests; a later call parses the text of the first call again, or one of  *)
(* Priors: texts on which parse returns, fails in the tokenizer, fails at  *)
(* the end of the text, and fails part-way with tokens left in the         *)
(* generator.                                                              *)
(***************************************************************************)
InitFull == Init /\ variant = "full"

SessionAlphabet == Alphabet \ {"0", "/", "~", "!"}

SessionInputs == Texts(SessionAlphabet, MaxLen - 1) \cup FullTests

Priors ==
    { <<>>, <<"2">>, <<"x">>, <<"(", "1">>, <<"1", SP, "2", "+", "3">> }

SessionStart(c) ==
    IF c = 1 THEN StartFrom(1, SessionInputs)
    ELSE /\ Finished(c - 1)
         /\ StartFrom(c, Priors \cup {program[1]})

SessionNext ==
    \E c \in Calls :
        \/ SessionStart(c)
        \/ Step(c)

SpecSession == InitFull /\ [][SessionNext]_vars

(***************************************************************************)
(* Two calls of full.parse in two threads.  The interpreter switches       *)
(* threads between bytecodes; the steps of the two calls interleave in any *)
(* order, each step of a call being one of the actions above.              *)
(***************************************************************************)
Threads == {1, 2}

ConcInputs ==
    { <<"3">>, <<"1", "+", "2">>, <<"2", "*", "3">>, <<"(", "2", ")", "!">> }

ConcNext ==
    \E c \in Threads :
        \/ StartFrom(c, ConcInputs)
        \/ Step(c)

SpecConc == InitFull /\ [][ConcNext]_vars

(***************************************************************************)
(* Standard arithmetic, for the claims about the value parse returns.      *)
(***************************************************************************)
ArithChars == Digits \cup {"+", "*"}

\* A text of literals joined by single + and *: no whitespace, no other character.
IsArith(s) ==
    /\ s # <<>>
    /\ \A i \in 1..Len(s) : s[i] \in ArithChars
    /\ s[1] \in Digits
    /\ s[Len(s)] \in Digits
    /\ \A i \in 1..(Len(s) - 1) : s[i] \in Digits \/ s[i + 1] \in Digits

\* The value of such a text: a sum of products.  sum is the sum of the terms
\* read, prod the product of the factors of the current term, num the digits
\* of the current literal.
RECURSIVE SumOfProducts(_, _, _, _, _)
SumOfProducts(s, i, sum, prod, num) ==
    IF i > Len(s) THEN sum + prod * num
    ELSE IF s[i] = "+" THEN SumOfProducts(s, i + 1, sum + prod * num, 1, 0)
    ELSE IF s[i] = "*" THEN SumOfProducts(s, i + 1, sum, prod * num, 0)
    ELSE SumOfProducts(s, i + 1, sum, prod, 10 * num + DigitVal(s[i]))

ArithValue(s) == SumOfProducts(s, 1, 0, 1, 0)

\* The frames of call c above the first, each with the frame that called it.
Callees(c) == 2..Len(stack[c])

\* C1: on a text of non-negative integer literals joined by + and *, parse
\* returns the value of the expression under standard arithmetic (* binds
\* tighter than +), in basic.py and in full.py alike; and the right operand of
\* a + or * takes in only operators that bind strictly tighter, so operators of
\* equal binding power are applied left to right.
C1_ArithmeticValue ==
    IsArith(program[1]) =>
        /\ Finished(1) => outcome[1] = Returned(IntVal(ArithValue(program[1])))
        /\ \A i \in Callees(1) :
               stack[1][i].pc \in {"led", "wait"} =>
                   Lbp(stack[1][i].t.cls) > Lbp(stack[1][i - 1].t.cls)

C1_Witness ==
    /\ variant = "basic"
    /\ program[1] = <<"1", "+", "2", "*", "3", "*", "4", "+", "5">>
    /\ outcome[1] = Returned(IntVal(30))

\* The literals of a chain a**b**...**z of single digits, <<>> when the text is
\* no such chain.
RECURSIVE PowChainLits(_)
PowChainLits(s) ==
    IF Len(s) = 1 /\ s[1] \in Digits THEN <<s[1]>>
    ELSE IF Len(s) >= 4 /\ s[1] \in Digits /\ s[2] = "*" /\ s[3] = "*"
                        /\ PowChainLits(SubSeq(s, 4, Len(s))) # <<>>
    THEN <<s[1]>> \o PowChainLits(SubSeq(s, 4, Len(s)))
    ELSE <<>>

IsPowChain(s) == Len(s) >= 4 /\ PowChainLits(s) # <<>>

\* a ** (b ** (c ** ...)): the chain grouped from the right.
RECURSIVE PowFromRight(_)
PowFromRight(ds) ==
    IF Len(ds) = 1 THEN Ok(IntVal(DigitVal(ds[1])))
    ELSE LET r == PowFromRight(Tail(ds))
         IN  IF r.ok THEN Pow(IntVal(DigitVal(ds[1])), r.v) ELSE r

\* ((a ** b) ** c) ** ...: the chain grouped from the left.
RECURSIVE PowFromLeft(_)
PowFromLeft(ds) ==
    IF Len(ds) = 1 THEN Ok(IntVal(DigitVal(ds[1])))
    ELSE LET l == PowFromLeft(SubSeq(ds, 1, Len(ds) - 1))
         IN  IF l.ok THEN Pow(l.v, IntVal(DigitVal(ds[Len(ds)]))) ELSE l

\* C2: infix ** is right-associative.  full.parse of a chain a**b**...**z of
\* literals returns a ** (b ** (... ** z)), the chain grouped from the right;
\* and the led of ** calls expression with rbp 29, one less than its lbp 30, so
\* that the call takes in a following **.
C2_PowRightAssociative ==
    variant = "full" =>
        /\ (Finished(1) /\ IsPowChain(program[1])) =>
               outcome[1] = Returned(PowFromRight(PowChainLits(program[1])).v)
        /\ \A i \in Callees(1) :
               (stack[1][i].via = "led" /\ stack[1][i - 1].t.cls = "pow") =>
                   /\ stack[1][i].rbp = 29
                   /\ stack[1][i].rbp = Lbp("pow") - 1

C2_Witness ==
    /\ variant = "full"
    /\ program[1] = <<"2", "*", "*", "2", "*", "*", "3">>
    /\ outcome[1] = Returned(IntVal(256))
    /\ PowFromLeft(PowChainLits(program[1])) = Ok(IntVal(64))

(***************************************************************************)
(* The grammar the binding powers of full.py stand for, as an evaluator by *)
(* recursive descent over the characters of a text without whitespace:     *)
(*     expr    ::= term (("+" | "-") term)*                                *)
(*     term    ::= power (("*" | "/") power)*                              *)
(*     power   ::= unary ("**" power)?                                     *)
(*     unary   ::= ("+" | "-" | "~") unary | postfix                       *)
(*     postfix ::= primary "!"*                                            *)
(*     primary ::= digits | "(" expr ")"                                   *)
(* A result is whether the text parses (ok), where the parse stopped (pos) *)
(* and the value or the first arithmetic error (r).                        *)
(***************************************************************************)
Parsed(pos, r) == [ok |-> TRUE, pos |-> pos, r |-> r]

NoParse == [ok |-> FALSE, pos |-> 0, r |-> Fail("syntax")]

\* a op b, when neither a nor b failed; else the earlier failure.
Binary(op, a, b) ==
    IF ~a.ok THEN a
    ELSE IF ~b.ok THEN b
    ELSE CASE op = "+" -> Add(a.v, b.v)
           [] op = "-" -> Sub(a.v, b.v)
           [] op = "*" -> Mul(a.v, b.v)
           [] op = "/" -> Div(a.v, b.v)
           [] op = "**" -> Pow(a.v, b.v)

Unary(op, a) ==
    IF ~a.ok THEN a
    ELSE CASE op = "+" -> Ok(a.v)
           [] op = "-" -> Ok(Neg(a.v))
           [] op = "~" -> Div(IntVal(1), a.v)

IsChar(s, i, ch) == i <= Len(s) /\ s[i] = ch

IsPowAt(s, i) == IsChar(s, i, "*") /\ IsChar(s, i + 1, "*")

RECURSIVE RefExpr(_, _), RefExprRest(_, _, _), RefTerm(_, _), RefTermRest(_, _, _)
RECURSIVE RefPower(_, _), RefUnary(_, _), RefBangs(_, _, _), RefPrimary(_, _)

RefPrimary(s, i) ==
    IF i <= Len(s) /\ s[i] \in Digits
    THEN LET k == SkipWhile(s, i, Digits)
         IN  Parsed(k, Ok(literal_token(SubSeq(s, i, k - 1)).value))
    ELSE IF IsChar(s, i, "(")
    THEN LET e == RefExpr(s, i + 1)
         IN  IF e.ok /\ IsChar(s, e.pos, ")") THEN Parsed(e.pos + 1, e.r) ELSE NoParse
    ELSE NoParse

RefBangs(s, i, r) ==
    IF IsChar(s, i, "!")
    THEN RefBangs(s, i + 1, IF r.ok THEN Factorial(r.v) ELSE r)
    ELSE Parsed(i, r)

RefUnary(s, i) ==
    IF i <= Len(s) /\ s[i] \in PrefixOps
    THEN LET u == RefUnary(s, i + 1)
         IN  IF u.ok THEN Parsed(u.pos, Unary(s[i], u.r)) ELSE NoParse
    ELSE LET p == RefPrimary(s, i)
         IN  IF p.ok THEN RefBangs(s, p.pos, p.r) ELSE NoParse

RefPower(s, i) ==
    LET u == RefUnary(s, i)
    IN  IF u.ok /\ IsPowAt(s, u.pos)
        THEN LET p == RefPower(s, u.pos + 2)
             IN  IF p.ok THEN Parsed(p.pos, Binary("**", u.r, p.r)) ELSE NoParse
        ELSE u

RefTermRest(s, i, acc) ==
    IF i <= Len(s) /\ s[i] \in {"*", "/"} /\ ~IsPowAt(s, i)
    THEN LET p == RefPower(s, i + 1)
         IN  IF p.ok THEN RefTermRest(s, p.pos, Binary(s[i], acc, p.r)) ELSE NoParse
    ELSE Parsed(i, acc)

RefTerm(s, i) ==
    LET p == RefPower(s, i)
    IN  IF p.ok THEN RefTermRest(s, p.pos, p.r) ELSE NoParse

RefExprRest(s, i, acc) ==
    IF i <= Len(s) /\ s[i] \in {"+", "-"}
    THEN LET t == RefTerm(s, i + 1)
         IN  IF t.ok THEN RefExprRest(s, t.pos, Binary(s[i], acc, t.r)) ELSE NoParse
    ELSE Parsed(i, acc)

RefExpr(s, i) ==
    LET t == RefTerm(s, i)
    IN  IF t.ok THEN RefExprRest(s, t.pos, t.r) ELSE NoParse

\* The whole text is an expr of the grammar.
WellFormed(s) == RefExpr(s, 1).ok /\ RefExpr(s, 1).pos = Len(s) + 1

\* What the grammar makes of a well-formed text, as an outcome of parse.
RefOutcome(s) ==
    LET r == RefExpr(s, 1).r
    IN  IF r.ok THEN Returned(r.v) ELSE Raised(r.err)

\* A +, - or ~ of the text stands in prefix position.
UsesPrefix(s) ==
    \E i \in 1..Len(s) :
        /\ s[i] \in PrefixOps
        /\ i = 1 \/ s[i - 1] \in {"+", "-", "*", "/", "~", "("}

PrefixClasses == {"add", "sub", "inv"}

\* C3: the operand of a prefix +, - or ~ is the next primary (a number, a
\* parenthesized group or another prefix expression) with the postfix ! that
\* follow it, and nothing more.  The nud calls expression with rbp 100, in
\* that call the only led invoked is that of !, and every infix operator
\* applies to the result of the prefix operator: on a well-formed text that
\* uses a prefix operator, parse yields what the grammar above yields, where
\* unary ::= prefix unary | primary "!"*.
C3_PrefixOperand ==
    variant = "full" =>
        /\ (Finished(1) /\ WellFormed(program[1]) /\ UsesPrefix(program[1])) =>
               outcome[1] = RefOutcome(program[1])
        /\ \A i \in Callees(1) :
               (stack[1][i].via = "nud" /\ stack[1][i - 1].t.cls \in PrefixClasses) =>
                   /\ stack[1][i].rbp = 100
                   /\ stack[1][i].pc = "led" => stack[1][i].t.cls = "fac"

C3_Witness ==
    /\ variant = "full"
    /\ program[1] = <<"2", "*", "-", "3", "+", "2">>
    /\ outcome[1] = Returned(IntVal(-4))

(***************************************************************************)
(* Parentheses, whitespace and tokens in the wrong place.                  *)
(***************************************************************************)
\* "(" minus ")" among the first i characters of s.
RECURSIVE ParenDepth(_, _)
ParenDepth(s, i) ==
    IF i = 0 THEN 0
    ELSE ParenDepth(s, i - 1)
         + (IF s[i] = "(" THEN 1 ELSE IF s[i] = ")" THEN -1 ELSE 0)

\* Every ")" closes a "(" and every "(" is closed.
Balanced(s) ==
    /\ \A i \in 1..Len(s) : ParenDepth(s, i) >= 0
    /\ ParenDepth(s, Len(s)) = 0

\* Some ")" closes nothing.
UnmatchedClose(s) == \E i \in 1..Len(s) : ParenDepth(s, i) < 0

\* C4: parentheses must balance in full.parse.  A text whose parentheses do
\* not balance yields no value: it fails, with the error of match ("Expected")
\* when a "(" stays open and with the error of a missing nud when a ")" closes
\* nothing.
C4_ParensMustBalance ==
    (variant = "full" /\ Finished(1) /\ ~Balanced(program[1])) =>
        outcome[1].st = "error"

\* s without its i-th character.
Remove(s, i) == SubSeq(s, 1, i - 1) \o SubSeq(s, i + 1, Len(s))

\* Whitespace at index i of s that separates nothing: taking it out joins
\* neither two digits into one literal nor two "*" into a "**".
AtTokenBoundary(s, i) ==
    /\ s[i] \in Whitespace
    /\ ~(i > 1 /\ i < Len(s) /\ s[i - 1] \in Digits /\ s[i + 1] \in Digits)
    /\ ~(i > 1 /\ i < Len(s) /\ s[i - 1] = "*" /\ s[i + 1] = "*")

\* Everything generator g yields until it raises: the tokens, and the error
\* that is not StopIteration, if one ends it.
RECURSIVE Drain(_, _)
Drain(v, g) ==
    LET r == GenNext(v, g)
    IN  IF r.err = "StopIteration" THEN [toks |-> <<>>, err |-> ""]
        ELSE IF r.err # "" THEN [toks |-> <<>>, err |-> r.err]
        ELSE LET d == Drain(v, r.g)
             IN  [toks |-> <<r.tok>> \o d.toks, err |-> d.err]

\* C5: tokenize skips whitespace wherever it occurs, leading, between tokens
\* and trailing: the text parsed and the same text without one whitespace
\* character at a token boundary yield the same tokens and no error of the
\* tokenizer where the other has none.
C5_WhitespaceSkipped ==
    \A c \in Calls :
        outcome[c].st # "idle" =>
            \A i \in 1..Len(program[c]) :
                AtTokenBoundary(program[c], i) =>
                    Drain(variant, tokenize(variant, program[c]))
                        = Drain(variant, tokenize(variant, Remove(program[c], i)))

\* C6: when expression() starts at a token that has no nud, the parse fails at
\* the nud step, with the error of the missing prefix handler: the step that
\* makes the token t does not fail, and the step after it raises the error of
\* the missing nud.
C6_NoPrefixHandlerFailsAtNud ==
    [][ /\ (variant = "full" /\ At(1, "begin") /\ ~HasNud(variant, token.cls)) =>
              (outcome'[1].st = "running" /\ stack'[1][Len(stack'[1])].pc = "nud")
        /\ (variant = "full" /\ At(1, "nud") /\ ~HasNud(variant, Top(1).t.cls)) =>
              outcome'[1] = Raised("AttributeError: nud") ]_vars

\* C10: a token without a led in infix position counts as lbp 0: the test of
\* the loop of expression() does not fail on it, the loop stops, the token
\* stays the current one and expression() goes on to return left.
C10_NoLedStopsLoop ==
    [][ (variant = "full" /\ At(1, "test") /\ ~HasLed(variant, token.cls)) =>
            /\ outcome'[1].st = "running"
            /\ stack'[1][Len(stack'[1])].pc = "ret"
            /\ token' = token
            /\ gens' = gens ]_vars

(***************************************************************************)
(* Calls of parse after and beside one another.                            *)
(***************************************************************************)
\* C7: parse is safe to call concurrently with itself: a call whose steps
\* interleave with those of another call returns what it returns when run
\* alone, which on a text of literals joined by + and * is the value of the
\* text (C1).
C7_ConcurrentAsAlone ==
    \A c \in Threads :
        (Finished(c) /\ IsArith(program[c])) =>
            outcome[c] = Returned(IntVal(ArithValue(program[c])))

\* C8: parse(s) after any earlier calls, returned or failed, yields what
\* parse(s) yields as the first call of the session.
C8_SequentialPurity ==
    \A c \in Calls :
        (c > 1 /\ Finished(c) /\ program[c] = program[1]) =>
            outcome[c] = outcome[1]

\* The second call failed part-way and left tokens in its generator; the
\* third call parsed the text of the first again, to a value.
C8_Witness ==
    /\ outcome[2].st = "error"
    /\ gens[2].st = "run"
    /\ gens[2].i < Len(gens[2].items)
    /\ program[3] = program[1]
    /\ program[1] = <<"-", "1">>
    /\ outcome[3] = Returned(IntVal(-1))

(***************************************************************************)
(* Termination.                                                            *)
(***************************************************************************)
\* The tokens generator g has yet to yield.
Remaining(g) == IF g.st = "run" THEN Len(g.items) - g.i + 1 ELSE 0

Weight(pc) ==
    CASE pc \in {"nud", "led"} -> 4
      [] pc \in {"wait", "test", "match"} -> 2
      [] OTHER -> 1

RECURSIVE SumWeights(_)
SumWeights(frames) ==
    IF frames = <<>> THEN 0
    ELSE Weight(frames[1].pc) + SumWeights(Tail(frames))

\* What is left to do of call c: four for every token to come, and for every
\* frame the steps it takes before it reads a token or returns.
Rank(c) == 4 * Remaining(gens[c]) + SumWeights(stack[c])

\* The tokens of the text of call 1 end with exactly one end token.
EndsWithOneEnd ==
    LET d == Drain(variant, tokenize(variant, program[1]))
        n == Len(d.toks)
    IN  d.err = "" =>
            /\ n = Len(Findall(variant, program[1])) + 1
            /\ d.toks[n] = end_token
            /\ HasLbp(variant, "end") /\ Lbp("end") = 0
            /\ \A i \in 1..(n - 1) : d.toks[i].cls # "end"

\* C9: evaluation terminates.  A call of parse that runs returns or raises in
\* the end; the tokens of a text that lexes end with exactly one end token, of
\* lbp 0; a running call always has a step to take, and every step brings it
\* nearer to its end, a frame being pushed only by a frame that has read a
\* token since it was pushed or last resumed; and no call returns a value
\* with the generator exhausted.
C9_Terminates ==
    /\ [](outcome[1].st # "idle" => EndsWithOneEnd)
    /\ [](outcome[1].st = "value" => gens[1].st \in {"run", "end"})
    /\ [](outcome[1].st = "running" => ENABLED Step(1))
    /\ [][outcome[1].st = "running" => (Rank(1)' < Rank(1) /\ Rank(1)' >= 0)]_vars
    /\ (outcome[1].st = "running" ~> Finished(1))

C9_Witness ==
    /\ program[1] = <<"-", "(", "1", "+", "2", ")", "!">>
    /\ outcome[1] = Returned(IntVal(-6))
    /\ gens[1].st = "end"
    /\ Remaining(gens[1]) = 0

====
